---------------------------- MODULE Spec2Model ----------------------------
(***************************************************************************)
(* A model of the ILC SDK request/response adapter (src/src/index.ts):     *)
(* class IlcSdk with processRequest (decode) and processResponse (encode). *)
(*                                                                         *)
(* Strings are sequences of lexemes: "/" is the path separator lexeme,     *)
(* "http://" and "https://" are the protocol lexemes, every other lexeme   *)
(* is a run of characters that holds no separator and no protocol.         *)
(* A JavaScript object is its property list: a sequence of <<key, value>>  *)
(* pairs in insertion order.  An optional string is [def, str].            *)
(***************************************************************************)
EXTENDS Integers, Sequences, FiniteSets, TLC

VARIABLES
    options,            \* the argument the adapter was constructed with
    log,                \* this.log: the logger the adapter holds
    defaultPublicPath,  \* this.defaultPublicPath
    warnings,           \* what the logger's warn() has received, in order
    calls,              \* the processRequest calls so far: request and outcome
    headers,            \* headers[i]: the headers of the response of request i
    lastEncode,         \* the latest processResponse call: its arguments and
                        \* the headers of its response before the call
    prevEncode,         \* the processResponse call before the latest one
    encodes,            \* the number of processResponse calls so far
    lastRead            \* the latest accessor call on a RequestData: which
                        \* accessor of which RequestData, and what it returned

vars ==
    <<options, log, defaultPublicPath, warnings, calls, headers, lastEncode, prevEncode,
      encodes, lastRead>>

-----------------------------------------------------------------------------
(* Bounds of the model *)

MaxDecodes == 2

MaxEncodes == 1

MaxSharedRequests == 2

MaxSharedEncodes == 2

-----------------------------------------------------------------------------
(* Values *)

Undefined == [def |-> FALSE, str |-> <<>>]

Some(s) == [def |-> TRUE, str |-> s]

\* JavaScript truthiness of an optional string: undefined and "" are falsy.
Truthy(o) == o.def /\ o.str # <<>>

\* obj.hasOwnProperty(k)
HasKey(obj, k) == \E i \in 1..Len(obj) : obj[i][1] = k

\* obj[k]: the property's value, undefined when obj has no such property
Get(obj, k) ==
    IF HasKey(obj, k)
    THEN Some(obj[CHOOSE i \in 1..Len(obj) : obj[i][1] = k][2])
    ELSE Undefined

\* The text JSON.stringify gives for an object, and a text that is no JSON.
JsonText(obj) == [syntax |-> "json", obj |-> obj, raw |-> <<>>]

PlainText(s) == [syntax |-> "other", obj |-> <<>>, raw |-> s]

\* A query parameter: absent, the base64 of a text, or characters that are
\* no base64 at all.
NoParam == [has |-> FALSE, enc |-> "none", text |-> PlainText(<<>>)]

Base64Param(text) == [has |-> TRUE, enc |-> "base64", text |-> text]

RawParam(s) == [has |-> TRUE, enc |-> "plain", text |-> PlainText(s)]

\* Buffer.from(value, 'base64').toString('utf-8'): never throws; characters
\* outside the base64 alphabet are dropped, which leaves no text.
Base64Decode(param) ==
    IF param.enc = "base64" THEN param.text ELSE PlainText(<<>>)

\* JSON.parse(text): the value, or a SyntaxError
JsonParse(text) ==
    IF text.syntax = "json"
    THEN [threw |-> FALSE, obj |-> text.obj]
    ELSE [threw |-> TRUE, obj |-> <<>>]

-----------------------------------------------------------------------------
(* path.relative of Node's posix path module *)

\* process.cwd(), as its segments: what a relative path is resolved against
Cwd == <<"srv">>

RECURSIVE SplitPath(_)
\* p.split('/'): the segments between the separators, empty ones included
SplitPath(p) ==
    IF p = <<>> THEN << <<>> >>
    ELSE IF Head(p) = "/" THEN << <<>> >> \o SplitPath(Tail(p))
    ELSE LET rest == SplitPath(Tail(p))
         IN  << <<Head(p)>> \o Head(rest) >> \o Tail(rest)

RECURSIVE NormalizeSegments(_, _)
\* normalizeString: "" and "." are dropped, ".." removes the segment before it
\* (and is dropped at the root)
NormalizeSegments(segs, acc) ==
    IF segs = <<>> THEN acc
    ELSE LET s == Head(segs)
         IN  IF s = <<>> \/ s = <<".">> THEN NormalizeSegments(Tail(segs), acc)
             ELSE IF s = <<"..">>
                  THEN NormalizeSegments(Tail(segs),
                          IF acc = <<>> THEN acc ELSE SubSeq(acc, 1, Len(acc) - 1))
                  ELSE NormalizeSegments(Tail(segs), Append(acc, s))

\* path.resolve(p): the segments of the absolute, normalized path
Resolve(p) ==
    IF p # <<>> /\ Head(p) = "/"
    THEN NormalizeSegments(SplitPath(p), <<>>)
    ELSE NormalizeSegments(SplitPath(p), Cwd)

RECURSIVE CommonPrefixLen(_, _)
CommonPrefixLen(a, b) ==
    IF a = <<>> \/ b = <<>> \/ Head(a) # Head(b) THEN 0
    ELSE 1 + CommonPrefixLen(Tail(a), Tail(b))

RECURSIVE JoinSegments(_)
\* segs.join('/')
JoinSegments(segs) ==
    IF segs = <<>> THEN <<>>
    ELSE IF Len(segs) = 1 THEN Head(segs)
    ELSE Head(segs) \o <<"/">> \o JoinSegments(Tail(segs))

\* A mutant of path.relative: `from` cut off the front of `to` as a string
PathRelativeByStringPrefix(from, to) ==
    IF Len(from) <= Len(to) /\ SubSeq(to, 1, Len(from)) = from
    THEN SubSeq(to, Len(from) + 1, Len(to))
    ELSE to

\* path.relative(from, to): one ".." per segment of `from` below the common
\* directory, then the segments of `to` below it; "" when both resolve alike
PathRelative(from, to) ==
    LET f == Resolve(from)
        t == Resolve(to)
        c == CommonPrefixLen(f, t)
    IN  JoinSegments([i \in 1..(Len(f) - c) |-> <<"..">>] \o SubSeq(t, c + 1, Len(t)))

-----------------------------------------------------------------------------
(* The request decoder: processRequest *)

\* The request as parseUrl gives it: the two query parameters the adapter reads
\* of url.searchParams.
Request(routerProps, appProps) == [routerProps |-> routerProps, appProps |-> appProps]

MissingRouterPropsWarning(n) == [kind |-> "missingRouterProps", request |-> n]

PassedPropsWarning(n) == [kind |-> "passedPropsParseError", request |-> n]

\* A mutant of getRequestUrls: the request URL defaults to '' and not to '/'
GetRequestUrlsEmptyDefault(url, n) ==
    IF url.routerProps.has
    THEN LET parsed == JsonParse(Base64Decode(url.routerProps))
             basePath == Get(parsed.obj, "basePath")
             reqUrl == Get(parsed.obj, "reqUrl")
         IN  IF parsed.threw
             THEN [threw |-> TRUE, error |-> "SyntaxError",
                   basePageUrl |-> <<>>, requestUrl |-> <<>>, warned |-> <<>>]
             ELSE IF ~basePath.def \/ ~reqUrl.def
             THEN [threw |-> TRUE, error |-> "TypeError",
                   basePageUrl |-> <<>>, requestUrl |-> <<>>, warned |-> <<>>]
             ELSE [threw |-> FALSE, error |-> "none",
                   basePageUrl |-> basePath.str,
                   requestUrl |-> <<"/">> \o PathRelative(basePath.str, reqUrl.str),
                   warned |-> <<>>]
    ELSE [threw |-> FALSE, error |-> "none",
          basePageUrl |-> <<"/">>, requestUrl |-> <<>>,
          warned |-> <<MissingRouterPropsWarning(n)>>]

\* getRequestUrls(url), for the n-th request: the res object it returns and
\* the warnings it logs, or the exception it lets escape
GetRequestUrls(url, n) ==
    IF url.routerProps.has
    THEN LET parsed == JsonParse(Base64Decode(url.routerProps))
             basePath == Get(parsed.obj, "basePath")
             reqUrl == Get(parsed.obj, "reqUrl")
         IN  IF parsed.threw
             THEN [threw |-> TRUE, error |-> "SyntaxError",
                   basePageUrl |-> <<>>, requestUrl |-> <<>>, warned |-> <<>>]
             ELSE IF ~basePath.def \/ ~reqUrl.def
             THEN \* path.relative rejects an argument that is no string
                  [threw |-> TRUE, error |-> "TypeError",
                   basePageUrl |-> <<>>, requestUrl |-> <<>>, warned |-> <<>>]
             ELSE [threw |-> FALSE, error |-> "none",
                   basePageUrl |-> basePath.str,
                   requestUrl |-> <<"/">> \o PathRelative(basePath.str, reqUrl.str),
                   warned |-> <<>>]
    ELSE [threw |-> FALSE, error |-> "none",
          basePageUrl |-> <<"/">>, requestUrl |-> <<"/">>,
          warned |-> <<MissingRouterPropsWarning(n)>>]

\* A mutant of getPassedProps: the catch block falls back without a warning
GetPassedPropsSilent(url, n) ==
    IF ~url.appProps.has
    THEN [props |-> <<>>, warned |-> <<>>]
    ELSE LET parsed == JsonParse(Base64Decode(url.appProps))
         IN  IF parsed.threw
             THEN [props |-> <<>>, warned |-> <<>>]
             ELSE [props |-> parsed.obj, warned |-> <<>>]

\* getPassedProps(url), for the n-th request: the props and the warnings logged
GetPassedProps(url, n) ==
    IF ~url.appProps.has
    THEN [props |-> <<>>, warned |-> <<>>]
    ELSE LET parsed == JsonParse(Base64Decode(url.appProps))
         IN  IF parsed.threw
             THEN [props |-> <<>>, warned |-> <<PassedPropsWarning(n)>>]
             ELSE [props |-> parsed.obj, warned |-> <<>>]

\* What processRequest(req) comes to for the n-th request: the RequestData it
\* returns (the three values its accessors close over) or the exception that
\* escapes it, and the warnings logged on the way.
Decode(url, n) ==
    LET urls == GetRequestUrls(url, n)
        passed == GetPassedProps(url, n)
    IN  IF urls.threw
        THEN [status |-> "threw", error |-> urls.error,
              requestUrl |-> <<>>, basePageUrl |-> <<>>, passedProps |-> <<>>,
              warned |-> <<>>]
        ELSE [status |-> "returned", error |-> "none",
              requestUrl |-> urls.requestUrl, basePageUrl |-> urls.basePageUrl,
              passedProps |-> passed.props,
              warned |-> urls.warned \o passed.warned]

\* The headers of a response the HTTP server hands over with a request
NoHeader == [enc |-> "none", str |-> <<>>]

PlainHeader(s) == [enc |-> "plain", str |-> s]

Base64Header(s) == [enc |-> "base64", str |-> s]

HeaderNames == {"x-head-title", "x-head-meta", "Link", "content-type"}

FreshHeaders ==
    [h \in HeaderNames |->
        IF h = "content-type" THEN PlainHeader(<<"text/html">>) ELSE NoHeader]

NoRead == [rd |-> 0, accessor |-> "none", str |-> <<>>, obj |-> <<>>]

\* An AppAssets value, and a ResponseData value
NoAssets ==
    [def |-> FALSE, cssBundle |-> Undefined, spaBundle |-> Undefined,
     dependencies |-> [def |-> FALSE, props |-> <<>>]]

AppAssets(css, spa, deps) ==
    [def |-> TRUE, cssBundle |-> css, spaBundle |-> spa, dependencies |-> deps]

NoDependencies == [def |-> FALSE, props |-> <<>>]

Dependencies(props) == [def |-> TRUE, props |-> props]

ResponseData(title, meta, assets) ==
    [pageTitle |-> title, pageMetaTags |-> meta, appAssets |-> assets]

NoEncode ==
    [rd |-> 0, res |-> 0, data |-> ResponseData(Undefined, Undefined, NoAssets),
     before |-> FreshHeaders, set |-> {}]

\* processRequest(req): one more call, with the request's response beside it
ProcessRequest(url) ==
    LET n == Len(calls) + 1
        out == Decode(url, n)
    IN  /\ calls' = Append(calls,
                       [req |-> url, status |-> out.status, error |-> out.error,
                        requestUrl |-> out.requestUrl,
                        basePageUrl |-> out.basePageUrl,
                        passedProps |-> out.passedProps])
        /\ warnings' = warnings \o out.warned
        /\ headers' = Append(headers, FreshHeaders)
        /\ UNCHANGED <<options, log, defaultPublicPath, lastEncode, prevEncode, encodes, lastRead>>

\* The RequestData objects returned so far
Returned == {i \in 1..Len(calls) : calls[i].status = "returned"}

\* requestData.getCurrentReqUrl()
GetCurrentReqUrl(i) ==
    /\ i \in Returned
    /\ lastRead' = [rd |-> i, accessor |-> "getCurrentReqUrl",
                    str |-> calls[i].requestUrl, obj |-> <<>>]
    /\ UNCHANGED <<options, log, defaultPublicPath, warnings, calls, headers, lastEncode,
                   prevEncode, encodes>>

\* requestData.getCurrentBasePath()
GetCurrentBasePath(i) ==
    /\ i \in Returned
    /\ lastRead' = [rd |-> i, accessor |-> "getCurrentBasePath",
                    str |-> calls[i].basePageUrl, obj |-> <<>>]
    /\ UNCHANGED <<options, log, defaultPublicPath, warnings, calls, headers, lastEncode,
                   prevEncode, encodes>>

\* requestData.getCurrentPathProps()
GetCurrentPathProps(i) ==
    /\ i \in Returned
    /\ lastRead' = [rd |-> i, accessor |-> "getCurrentPathProps",
                    str |-> <<>>, obj |-> calls[i].passedProps]
    /\ UNCHANGED <<options, log, defaultPublicPath, warnings, calls, headers, lastEncode,
                   prevEncode, encodes>>

\* new IlcSdk({logger, publicPath}): an omitted logger is the console, an
\* omitted publicPath is '/'
Constructor(logger, publicPath) ==
    /\ options = [logger |-> logger, publicPath |-> publicPath]
    /\ log = (IF logger.def THEN logger.str ELSE <<"console">>)
    /\ defaultPublicPath = (IF publicPath.def THEN publicPath.str ELSE <<"/">>)
    /\ warnings = <<>>
    /\ calls = <<>>
    /\ headers = <<>>
    /\ lastEncode = NoEncode
    /\ prevEncode = NoEncode
    /\ encodes = 0
    /\ lastRead = NoRead

-----------------------------------------------------------------------------
(* The response encoder: processResponse *)

\* str.includes(lexeme)
Includes(str, lexeme) == \E k \in 1..Len(str) : str[k] = lexeme

RECURSIVE StripLeadingSlashes(_)
\* component.replace(/^[\/]+/, '')
StripLeadingSlashes(str) ==
    IF str # <<>> /\ Head(str) = "/" THEN StripLeadingSlashes(Tail(str)) ELSE str

RECURSIVE StripTrailingSlashes(_)
\* component.replace(/[\/]+$/, '')
StripTrailingSlashes(str) ==
    IF str # <<>> /\ str[Len(str)] = "/"
    THEN StripTrailingSlashes(SubSeq(str, 1, Len(str) - 1))
    ELSE str

\* component.replace(/[\/]+$/, '/')
CollapseTrailingSlashes(str) ==
    IF str # <<>> /\ str[Len(str)] = "/"
    THEN Append(StripTrailingSlashes(str), "/")
    ELSE str

\* urljoin(a, b) of the url-join package, for two components that hold no
\* '?', '&' or '#' and of which the first is no bare protocol: an empty
\* component is skipped, the first loses its trailing separators, the last
\* its leading ones (its trailing ones become one), and what is left is
\* joined by one separator.
UrlJoin(a, b) ==
    LET first == IF a = <<>> THEN <<>> ELSE <<StripTrailingSlashes(a)>>
        last == IF b = <<>> THEN <<>>
                ELSE <<CollapseTrailingSlashes(StripLeadingSlashes(b))>>
    IN  JoinSegments(first \o last)

\* A mutant of buildLink: a publicPath that is '' counts as given
BuildLinkDefinedPublicPath(path, publicPath) ==
    IF Includes(path, "http://") \/ Includes(path, "https://")
    THEN path
    ELSE UrlJoin(IF publicPath.def THEN publicPath.str ELSE defaultPublicPath, path)

\* buildLink(path, publicPath)
BuildLink(path, publicPath) ==
    IF Includes(path, "http://") \/ Includes(path, "https://")
    THEN path
    ELSE UrlJoin(IF Truthy(publicPath) THEN publicPath.str ELSE defaultPublicPath, path)

\* The canonical array-index keys among the property names of the model, and
\* the number each one is
ArrayIndexOf(k) == CASE k = "1" -> 1 [] k = "2" -> 2 [] OTHER -> -1

IsArrayIndex(k) == ArrayIndexOf(k) >= 0

RECURSIVE SortByIndex(_)
SortByIndex(props) ==
    IF props = <<>> THEN <<>>
    ELSE LET m == CHOOSE i \in 1..Len(props) :
                      \A j \in 1..Len(props) :
                          ArrayIndexOf(props[i][1]) <= ArrayIndexOf(props[j][1])
         IN  <<props[m]>>
                 \o SortByIndex(SubSeq(props, 1, m - 1) \o SubSeq(props, m + 1, Len(props)))

\* for (let k in obj) with the hasOwnProperty filter: the own properties,
\* array-index keys first in ascending order, then the other keys in
\* insertion order; nothing for an undefined obj
ForIn(obj) ==
    IF ~obj.def THEN <<>>
    ELSE SortByIndex(SelectSeq(obj.props, LAMBDA kv : IsArrayIndex(kv[1])))
             \o SelectSeq(obj.props, LAMBDA kv : ~IsArrayIndex(kv[1]))

RECURSIVE JoinWith(_, _)
\* strs.join(sep)
JoinWith(strs, sep) ==
    IF strs = <<>> THEN <<>>
    ELSE IF Len(strs) = 1 THEN Head(strs)
    ELSE Head(strs) \o <<sep>> \o JoinWith(Tail(strs), sep)

\* One link of the Link header: what getLinkHeader pushes for an asset
FormatLink(asset, url) ==
    CASE asset.rel = "stylesheet" -> <<"<">> \o url \o <<">; rel=\"stylesheet\"">>
      [] asset.rel = "fragment-script" ->
            <<"<">> \o url
                \o <<">; rel=\"fragment-script\"; as=\"script\"; crossorigin=\"anonymous\"">>
      [] OTHER ->
            <<"<">> \o url \o <<">; rel=\"fragment-dependency\"; name=\"", asset.name, "\"">>

Asset(rel, path, name) == [rel |-> rel, path |-> path, name |-> name]

\* The assets getLinkHeader pushes a link for, in the order it pushes them
PushedAssets(appAssets) ==
    LET deps == ForIn(appAssets.dependencies)
    IN  (IF Truthy(appAssets.cssBundle)
         THEN <<Asset("stylesheet", appAssets.cssBundle.str, "")>> ELSE <<>>)
        \o (IF Truthy(appAssets.spaBundle)
            THEN <<Asset("fragment-script", appAssets.spaBundle.str, "")>> ELSE <<>>)
        \o [k \in 1..Len(deps) |-> Asset("fragment-dependency", deps[k][2], deps[k][1])]

\* A mutant of getLinkHeader: the script is pushed before the stylesheet
GetLinkHeaderScriptFirst(appAssets, publicPath) ==
    LET deps == ForIn(appAssets.dependencies)
        pushed ==
            (IF Truthy(appAssets.spaBundle)
             THEN <<Asset("fragment-script", appAssets.spaBundle.str, "")>> ELSE <<>>)
            \o (IF Truthy(appAssets.cssBundle)
                THEN <<Asset("stylesheet", appAssets.cssBundle.str, "")>> ELSE <<>>)
            \o [k \in 1..Len(deps) |->
                   Asset("fragment-dependency", deps[k][2], deps[k][1])]
    IN  JoinWith([k \in 1..Len(pushed) |->
                     FormatLink(pushed[k], BuildLink(pushed[k].path, publicPath))], ",")

\* getLinkHeader(appAssets, publicPath)
GetLinkHeader(appAssets, publicPath) ==
    LET pushed == PushedAssets(appAssets)
    IN  JoinWith([k \in 1..Len(pushed) |->
                     FormatLink(pushed[k], BuildLink(pushed[k].path, publicPath))], ",")

\* A mutant of processResponse's header values: the title goes out without
\* its <title> element
SetHeaderCallsBareTitle(reqData, data) ==
    (IF Truthy(data.pageTitle)
     THEN << <<"x-head-title", Base64Header(data.pageTitle.str)>> >>
     ELSE <<>>)
    \o (IF Truthy(data.pageMetaTags)
        THEN << <<"x-head-meta", Base64Header(data.pageMetaTags.str)>> >>
        ELSE <<>>)
    \o (IF data.appAssets.def
        THEN << <<"Link",
                  PlainHeader(GetLinkHeader(data.appAssets,
                                            Get(reqData.passedProps, "publicPath")))>> >>
        ELSE <<>>)

\* The headers processResponse sets for the data, in the order it sets them:
\* <<name, value>> pairs, one per res.setHeader call
SetHeaderCalls(reqData, data) ==
    (IF Truthy(data.pageTitle)
     THEN << <<"x-head-title",
               Base64Header(<<"<title>">> \o data.pageTitle.str \o <<"</title>">>)>> >>
     ELSE <<>>)
    \o (IF Truthy(data.pageMetaTags)
        THEN << <<"x-head-meta", Base64Header(data.pageMetaTags.str)>> >>
        ELSE <<>>)
    \o (IF data.appAssets.def
        THEN << <<"Link",
                  PlainHeader(GetLinkHeader(data.appAssets,
                                            Get(reqData.passedProps, "publicPath")))>> >>
        ELSE <<>>)

RECURSIVE ApplyAppendHeader(_, _)
\* A mutant of res.setHeader: the value is appended to the one the header has
ApplyAppendHeader(hs, setCalls) ==
    IF setCalls = <<>> THEN hs
    ELSE LET name == Head(setCalls)[1]
             value == Head(setCalls)[2]
         IN  ApplyAppendHeader(
                 [hs EXCEPT ![name] =
                     IF @ = NoHeader THEN value
                     ELSE [enc |-> value.enc, str |-> @.str \o <<",">> \o value.str]],
                 Tail(setCalls))

RECURSIVE ApplySetHeader(_, _)
\* res.setHeader(name, value), call after call: the value replaces the header's
ApplySetHeader(hs, setCalls) ==
    IF setCalls = <<>> THEN hs
    ELSE ApplySetHeader([hs EXCEPT ![Head(setCalls)[1]] = Head(setCalls)[2]], Tail(setCalls))

\* A mutant of processResponse: the public path of the request is kept in
\* this.defaultPublicPath for the calls to come
ProcessResponseKeepingPublicPath(i, j, data) ==
    LET setCalls == SetHeaderCalls(calls[i], data)
        publicPath == Get(calls[i].passedProps, "publicPath")
    IN  /\ i \in Returned
        /\ j \in 1..Len(headers)
        /\ headers' = [headers EXCEPT ![j] = ApplySetHeader(@, setCalls)]
        /\ lastEncode' = [rd |-> i, res |-> j, data |-> data, before |-> headers[j],
                          set |-> {setCalls[k][1] : k \in 1..Len(setCalls)}]
        /\ prevEncode' = lastEncode
        /\ encodes' = encodes + 1
        /\ defaultPublicPath' =
              (IF data.appAssets.def /\ Truthy(publicPath)
               THEN publicPath.str ELSE defaultPublicPath)
        /\ UNCHANGED <<options, log, warnings, calls, lastRead>>

\* processResponse(reqData, res, data), with RequestData i and the response of
\* request j
ProcessResponse(i, j, data) ==
    LET setCalls == SetHeaderCalls(calls[i], data)
    IN  /\ i \in Returned
        /\ j \in 1..Len(headers)
        /\ headers' = [headers EXCEPT ![j] = ApplySetHeader(@, setCalls)]
        /\ lastEncode' = [rd |-> i, res |-> j, data |-> data, before |-> headers[j],
                          set |-> {setCalls[k][1] : k \in 1..Len(setCalls)}]
        /\ prevEncode' = lastEncode
        /\ encodes' = encodes + 1
        /\ UNCHANGED <<options, log, defaultPublicPath, warnings, calls, lastRead>>

-----------------------------------------------------------------------------
(* The inputs of the decoder *)

ConstructorLoggers == {Undefined, Some(<<"appLogger">>)}

ConstructorPublicPaths == {Undefined, Some(<<"/", "static", "/">>)}

\* {basePath, reqUrl} objects: reqUrl below basePath, equal to it, with a
\* trailing separator, beside it, and unrelated to it
RouterObjects ==
    { << <<"basePath", <<"/", "foo">> >>, <<"reqUrl", <<"/", "foo", "/", "bar">> >> >>,
      << <<"basePath", <<"/", "foo">> >>, <<"reqUrl", <<"/", "foo">> >> >>,
      << <<"basePath", <<"/">> >>, <<"reqUrl", <<"/", "foo", "/", "bar">> >> >>,
      << <<"basePath", <<"/">> >>, <<"reqUrl", <<"/">> >> >>,
      << <<"basePath", <<"/", "foo", "/">> >>, <<"reqUrl", <<"/", "foo", "/", "bar", "/", "baz", "/">> >> >>,
      << <<"basePath", <<"/", "foo">> >>, <<"reqUrl", <<"/", "foobar">> >> >>,
      << <<"basePath", <<"/", "foo">> >>, <<"reqUrl", <<"/", "qux">> >> >>,
      << <<"reqUrl", <<"/", "foo">> >> >> }

RouterParams ==
    {NoParam, Base64Param(PlainText(<<"not-json">>)), RawParam(<<"%%%">>)}
        \cup {Base64Param(JsonText(o)) : o \in RouterObjects}

PropsObjects ==
    { <<>>,
      << <<"publicPath", <<"/", "cdn", "/">> >> >>,
      << <<"publicPath", <<>> >> >>,
      << <<"page", <<"2">> >> >> }

PropsParams ==
    {NoParam, Base64Param(PlainText(<<"not-json">>)), RawParam(<<"%%%">>)}
        \cup {Base64Param(JsonText(o)) : o \in PropsObjects}

\* Every routerProps with no appProps, and every appProps with routerProps
\* absent, well-formed, and malformed
Requests ==
    {Request(r, NoParam) : r \in RouterParams}
        \cup {Request(r, a) :
                r \in {NoParam, RawParam(<<"%%%">>),
                       Base64Param(JsonText(
                           << <<"basePath", <<"/", "foo">> >>,
                              <<"reqUrl", <<"/", "foo", "/", "bar">> >> >>))},
                a \in PropsParams}

-----------------------------------------------------------------------------
(* The decoder alone: requests of every shape, and the accessors *)

InitDecode ==
    \E logger \in ConstructorLoggers, publicPath \in ConstructorPublicPaths :
        Constructor(logger, publicPath)

DecodeRequest == \E url \in Requests : Len(calls) < MaxDecodes /\ ProcessRequest(url)

NextDecode == DecodeRequest

SpecDecode == InitDecode /\ [][NextDecode]_vars

-----------------------------------------------------------------------------
(* Claims about the decoder *)

WellFormed(param) == param.enc = "base64" /\ param.text.syntax = "json"

Malformed(param) == param.has /\ ~WellFormed(param)

\* How many times warning w was logged
Logged(w) == Cardinality({k \in 1..Len(warnings) : warnings[k] = w})

\* C1: processRequest returns a RequestData for every request, whatever its
\* routerProps and appProps hold; no exception escapes it.
C1_NeverThrows == \A i \in 1..Len(calls) : calls[i].status = "returned"

\* C2: the path props of a decoded request are the decoded JSON value when
\* appProps is well-formed, the empty mapping with no props warning when it
\* is absent, and the empty mapping with exactly one props warning when it is
\* malformed; a malformed appProps leaves the base path and the request URL
\* what they are with a well-formed one.
C2_PassedProps ==
    \A i \in Returned :
        LET a == calls[i].req.appProps
            withGoodProps == Decode(Request(calls[i].req.routerProps,
                                            Base64Param(JsonText(<<>>))), i)
        IN  /\ ~a.has => calls[i].passedProps = <<>> /\ Logged(PassedPropsWarning(i)) = 0
            /\ WellFormed(a) =>
                  calls[i].passedProps = a.text.obj /\ Logged(PassedPropsWarning(i)) = 0
            /\ Malformed(a) =>
                  /\ calls[i].passedProps = <<>>
                  /\ Logged(PassedPropsWarning(i)) = 1
                  /\ calls[i].basePageUrl = withGoodProps.basePageUrl
                  /\ calls[i].requestUrl = withGoodProps.requestUrl

C2_Witness ==
    \E i \in Returned :
        /\ Malformed(calls[i].req.appProps)
        /\ calls[i].req.routerProps.has
        /\ calls[i].basePageUrl = <<"/", "foo">>
        /\ Logged(PassedPropsWarning(i)) = 1

\* C3: a request with no routerProps decodes to base path "/" and request URL
\* "/" and logs the missing-routerProps warning; a request with routerProps
\* logs no such warning.
C3_MissingRouterProps ==
    \A i \in 1..Len(calls) :
        IF calls[i].req.routerProps.has
        THEN Logged(MissingRouterPropsWarning(i)) = 0
        ELSE /\ calls[i].status = "returned"
             /\ calls[i].basePageUrl = <<"/">>
             /\ calls[i].requestUrl = <<"/">>
             /\ Logged(MissingRouterPropsWarning(i)) = 1

C3_Witness ==
    \E i, j \in Returned :
        /\ ~calls[i].req.routerProps.has
        /\ calls[j].req.routerProps.has

\* The segments of a path that holds no "." and no ".." segment
Segments(p) == SelectSeq(p, LAMBDA x : x # "/")

IsPrefix(a, b) == Len(a) <= Len(b) /\ SubSeq(b, 1, Len(a)) = a

RECURSIVE SlashJoin(_)
SlashJoin(segs) ==
    IF segs = <<>> THEN <<>>
    ELSE IF Len(segs) = 1 THEN segs
    ELSE <<Head(segs), "/">> \o SlashJoin(Tail(segs))

\* C4: the request URL of a decoded request begins with "/"; when routerProps
\* decodes to {basePath, reqUrl} the base path is basePath, and when basePath
\* is a path prefix of reqUrl the request URL is "/" followed by the rest of
\* reqUrl: "/bar" for "/foo" and "/foo/bar", "/" when the two are equal.
C4_RequestUrl ==
    \A i \in Returned :
        LET r == calls[i].req.routerProps
            b == Get(r.text.obj, "basePath").str
            u == Get(r.text.obj, "reqUrl").str
        IN  /\ calls[i].requestUrl # <<>>
            /\ Head(calls[i].requestUrl) = "/"
            /\ r.has =>
                /\ calls[i].basePageUrl = b
                /\ IsPrefix(Segments(b), Segments(u)) =>
                      calls[i].requestUrl =
                          <<"/">> \o SlashJoin(SubSeq(Segments(u), Len(Segments(b)) + 1,
                                                      Len(Segments(u))))
                /\ u = b => calls[i].requestUrl = <<"/">>
                /\ (b = <<"/", "foo">> /\ u = <<"/", "foo", "/", "bar">>) =>
                      calls[i].requestUrl = <<"/", "bar">>

C4_Witness ==
    \E i, j \in Returned :
        /\ calls[i].req.routerProps.has
        /\ calls[i].basePageUrl = <<"/", "foo">>
        /\ calls[i].requestUrl = <<"/", "bar">>
        /\ calls[j].req.routerProps.has
        /\ calls[j].basePageUrl = <<"/", "foo">>
        /\ calls[j].requestUrl = <<"/">>

-----------------------------------------------------------------------------
(* The encoder after one decoded request: response data of every shape *)

\* Requests with a well-formed routerProps and every kind of appProps
EncodeRequests ==
    {Request(Base64Param(JsonText(<< <<"basePath", <<"/", "foo">> >>,
                                     <<"reqUrl", <<"/", "foo", "/", "bar">> >> >>)), a) :
        a \in {NoParam, Base64Param(PlainText(<<"not-json">>))}
                 \cup {Base64Param(JsonText(o)) : o \in PropsObjects}}

Titles == {Undefined, Some(<<>>), Some(<<"Hi">>)}

MetaTags == {Undefined, Some(<<>>), Some(<<"<meta name=\"a\">">>)}

CssBundles ==
    {Undefined, Some(<<>>), Some(<<"main.css">>), Some(<<"http://", "cdn", "/", "x.css">>)}

SpaBundles ==
    {Undefined, Some(<<"main.js">>), Some(<<"/", "js", "/", "main.js">>),
     Some(<<"proxy", "/", "https://", "cdn", "/", "x.js">>)}

DependencyMaps ==
    {NoDependencies,
     Dependencies(<<>>),
     Dependencies(<< <<"shared", <<"shared.js">> >> >>),
     Dependencies(<< <<"shared", <<"shared.js">> >>,
                     <<"react", <<"https://", "cdn", "/", "react.js">> >> >>),
     Dependencies(<< <<"shared", <<"shared.js">> >>,
                     <<"2", <<"two.js">> >>, <<"1", <<"one.js">> >> >>)}

ResponseDatas ==
    {ResponseData(t, m, a) :
        t \in Titles, m \in MetaTags,
        a \in {NoAssets, AppAssets(Undefined, Some(<<"main.js">>), NoDependencies)}}
        \cup {ResponseData(Undefined, Undefined, AppAssets(c, sp, d)) :
                c \in CssBundles, sp \in SpaBundles, d \in DependencyMaps}

InitEncode ==
    \E publicPath \in ConstructorPublicPaths : Constructor(Undefined, publicPath)

EncodeDecodeRequest == \E url \in EncodeRequests : calls = <<>> /\ ProcessRequest(url)

EncodeResponse ==
    \E d \in ResponseDatas : encodes < MaxEncodes /\ ProcessResponse(1, 1, d)

NextEncode == EncodeDecodeRequest \/ EncodeResponse

SpecEncode == InitEncode /\ [][NextEncode]_vars

-----------------------------------------------------------------------------
(* Claims about the encoder *)

\* The headers of the response of the latest processResponse call, as the
\* call left them
After == headers[lastEncode.res]

\* The headers the claims speak of, given which fields count as set
HeadersFollow(titleSet, metaSet, assetsSet) ==
    LET d == lastEncode.data
    IN  /\ ("x-head-title" \in lastEncode.set) <=> titleSet
        /\ ("x-head-meta" \in lastEncode.set) <=> metaSet
        /\ ("Link" \in lastEncode.set) <=> assetsSet
        /\ "content-type" \notin lastEncode.set
        /\ titleSet =>
              After["x-head-title"] =
                  Base64Header(<<"<title>">> \o d.pageTitle.str \o <<"</title>">>)
        /\ metaSet => After["x-head-meta"] = Base64Header(d.pageMetaTags.str)
        /\ assetsSet => After["Link"].enc = "plain"
        /\ \A h \in HeaderNames \ lastEncode.set : After[h] = lastEncode.before[h]

\* C5 as stated: processResponse sets x-head-title, x-head-meta and Link
\* exactly when pageTitle, pageMetaTags and appAssets are set (not undefined),
\* to the values derived from them, and leaves every other header unchanged.
C5_SetIffFieldSet ==
    encodes > 0 =>
        HeadersFollow(lastEncode.data.pageTitle.def, lastEncode.data.pageMetaTags.def,
                      lastEncode.data.appAssets.def)

\* C5 amended: processResponse sets x-head-title and x-head-meta exactly when
\* pageTitle and pageMetaTags are set to a non-empty string, and Link exactly
\* when appAssets is set; each to the value derived from its field, every
\* other header unchanged.
C5_SetIffFieldTruthy ==
    encodes > 0 =>
        HeadersFollow(Truthy(lastEncode.data.pageTitle), Truthy(lastEncode.data.pageMetaTags),
                      lastEncode.data.appAssets.def)

C5_Witness ==
    /\ encodes > 0
    /\ lastEncode.data = ResponseData(Some(<<"Hi">>), Undefined, NoAssets)
    /\ After["x-head-title"] = Base64Header(<<"<title>", "Hi", "</title>">>)
    /\ After["Link"] = NoHeader
    /\ After["x-head-meta"] = NoHeader

\* The assets the claims speak of: the stylesheet, the script, then the
\* dependencies in insertion order; an empty bundle path counts as present
\* when emptyCounts
ClaimedAssets(assets, emptyCounts) ==
    (IF assets.cssBundle.def /\ (emptyCounts \/ assets.cssBundle.str # <<>>)
     THEN <<Asset("stylesheet", assets.cssBundle.str, "")>> ELSE <<>>)
    \o (IF assets.spaBundle.def /\ (emptyCounts \/ assets.spaBundle.str # <<>>)
        THEN <<Asset("fragment-script", assets.spaBundle.str, "")>> ELSE <<>>)
    \o [k \in 1..Len(assets.dependencies.props) |->
           Asset("fragment-dependency", assets.dependencies.props[k][2],
                 assets.dependencies.props[k][1])]

\* The URL the encoder builds for a path of the latest call
BuiltUrl(path) == BuildLink(path, Get(calls[lastEncode.rd].passedProps, "publicPath"))

\* The Link value of the claimed assets, each with the URL the encoder builds
ClaimedLink(assets, emptyCounts) ==
    LET claimed == ClaimedAssets(assets, emptyCounts)
    IN  JoinWith([k \in 1..Len(claimed) |->
                     FormatLink(claimed[k], BuiltUrl(claimed[k].path))], ",")

NoArrayIndexName(assets) ==
    \A k \in 1..Len(assets.dependencies.props) :
        ~IsArrayIndex(assets.dependencies.props[k][1])

ClaimedPublicPath ==
    LET a == calls[lastEncode.rd].req.appProps
        given == IF WellFormed(a) THEN Get(a.text.obj, "publicPath") ELSE Undefined
    IN  IF Truthy(given) THEN given.str
        ELSE IF options.publicPath.def THEN options.publicPath.str
        ELSE <<"/">>

IsAbsoluteUrl(path) == path # <<>> /\ Head(path) \in {"http://", "https://"}

\* The URL of a path that starts with http:// or https:// is the path, and
\* the URL of any other path is the path joined onto the public path
AbsoluteOrJoined(path) ==
    IF IsAbsoluteUrl(path) THEN path ELSE UrlJoin(ClaimedPublicPath, path)

\* C7: every asset path that is an absolute http:// or https:// URL is used
\* unchanged, and every other path is joined onto the effective public path.
C7_AbsoluteOrJoined ==
    (encodes > 0 /\ lastEncode.data.appAssets.def) =>
        LET pushed == PushedAssets(lastEncode.data.appAssets)
        IN  After["Link"] =
                PlainHeader(JoinWith([k \in 1..Len(pushed) |->
                    FormatLink(pushed[k], AbsoluteOrJoined(pushed[k].path))], ","))

\* The URL of a path that holds no http:// or https:// is the path joined onto
\* the claimed public path
JoinedOntoClaimed(path) ==
    IF Includes(path, "http://") \/ Includes(path, "https://")
    THEN path
    ELSE UrlJoin(ClaimedPublicPath, path)

\* C8: the public path the asset URLs of the Link header are joined onto is
\* the publicPath of the request's appProps when present and non-empty, and
\* otherwise the default public path of the constructor ("/" when none was
\* given), also when appProps was absent or malformed.
C8_PublicPath ==
    (encodes > 0 /\ lastEncode.data.appAssets.def) =>
        LET pushed == PushedAssets(lastEncode.data.appAssets)
        IN  After["Link"] =
                PlainHeader(JoinWith([k \in 1..Len(pushed) |->
                    FormatLink(pushed[k], JoinedOntoClaimed(pushed[k].path))], ","))

C8_Witness ==
    /\ encodes > 0
    /\ options.publicPath = Some(<<"/", "static", "/">>)
    /\ calls[lastEncode.rd].req.appProps =
          Base64Param(JsonText(<< <<"publicPath", <<"/", "cdn", "/">> >> >>))
    /\ lastEncode.data.appAssets = AppAssets(Undefined, Some(<<"main.js">>), NoDependencies)
    /\ After["Link"] = PlainHeader(
          <<"<", "/", "cdn", "/", "main.js",
            ">; rel=\"fragment-script\"; as=\"script\"; crossorigin=\"anonymous\"">>)

-----------------------------------------------------------------------------
(* One adapter shared by interleaved requests, each with its own response *)

SharedRequests ==
    {Request(NoParam, NoParam),
     Request(Base64Param(JsonText(<< <<"basePath", <<"/", "foo">> >>,
                                     <<"reqUrl", <<"/", "foo", "/", "bar">> >> >>)),
             Base64Param(JsonText(<< <<"publicPath", <<"/", "cdn", "/">> >> >>))),
     Request(RawParam(<<"%%%">>), Base64Param(PlainText(<<"not-json">>)))}

SharedDatas ==
    {ResponseData(Some(<<"Hi">>), Undefined, NoAssets),
     ResponseData(Some(<<"Yo">>), Some(<<"<meta name=\"a\">">>),
                  AppAssets(Undefined, Some(<<"main.js">>), NoDependencies)),
     ResponseData(Undefined, Undefined,
                  AppAssets(Some(<<"main.css">>), Undefined,
                            Dependencies(<< <<"shared", <<"shared.js">> >> >>)))}

\* new IlcSdk({}) and new IlcSdk({logger, publicPath})
InitShared ==
    \/ Constructor(Undefined, Undefined)
    \/ Constructor(Some(<<"appLogger">>), Some(<<"/", "static", "/">>))

SharedRequest ==
    \E url \in SharedRequests : Len(calls) < MaxSharedRequests /\ ProcessRequest(url)

SharedResponse ==
    \E i \in Returned, d \in SharedDatas :
        encodes < MaxSharedEncodes /\ ProcessResponse(i, i, d)

ReadReqUrl == \E i \in Returned : GetCurrentReqUrl(i)

ReadBasePath == \E i \in Returned : GetCurrentBasePath(i)

ReadPathProps == \E i \in Returned : GetCurrentPathProps(i)

NextShared == SharedRequest \/ SharedResponse \/ ReadReqUrl \/ ReadBasePath \/ ReadPathProps

SpecShared == InitShared /\ [][NextShared]_vars

-----------------------------------------------------------------------------
(* Claims about repeated and interleaved calls *)

\* The value each header has when it is derived from the data of the latest
\* call alone
DerivedFromLatest(h) ==
    LET d == lastEncode.data
    IN  CASE h = "x-head-title" ->
                Base64Header(<<"<title>">> \o d.pageTitle.str \o <<"</title>">>)
          [] h = "x-head-meta" -> Base64Header(d.pageMetaTags.str)
          [] h = "Link" ->
                PlainHeader(ClaimedLink(d.appAssets, FALSE))
          [] OTHER -> lastEncode.before[h]

\* Whether the data of the latest call sets the field header h is derived from
LatestSets(h) ==
    CASE h = "x-head-title" -> Truthy(lastEncode.data.pageTitle)
      [] h = "x-head-meta" -> Truthy(lastEncode.data.pageMetaTags)
      [] h = "Link" -> lastEncode.data.appAssets.def
      [] OTHER -> FALSE

SameCallTwice ==
    /\ encodes >= 2
    /\ prevEncode.rd = lastEncode.rd
    /\ prevEncode.res = lastEncode.res
    /\ prevEncode.data = lastEncode.data

\* C9 as stated: after any sequence of processResponse calls on a response,
\* the headers the adapter writes hold the values derived from the data of
\* the latest call; the Link header holds only the asset entries of the
\* latest call.
C9_LatestCallOnly ==
    encodes > 0 =>
        \A h \in {"x-head-title", "x-head-meta", "Link"} :
            After[h] # NoHeader => LatestSets(h) /\ After[h] = DerivedFromLatest(h)

\* C9 amended: calling processResponse twice with the same data leaves the
\* headers as after one call; a call overwrites each header whose field its
\* data sets with the value derived from that data alone, nothing appended,
\* and leaves a header whose field its data does not set as it was.
C9_LastWriteWins ==
    encodes > 0 =>
        /\ SameCallTwice => After = lastEncode.before
        /\ \A h \in HeaderNames :
              After[h] = IF LatestSets(h) THEN DerivedFromLatest(h) ELSE lastEncode.before[h]

C9_Witness ==
    /\ encodes >= 2
    /\ prevEncode.res = lastEncode.res
    /\ prevEncode.data.appAssets.def
    /\ lastEncode.data.appAssets.def
    /\ prevEncode.data.appAssets # lastEncode.data.appAssets
    /\ lastEncode.before["Link"] # NoHeader
    /\ After["Link"] # lastEncode.before["Link"]

\* What the accessors of RequestData i returned when processRequest made it
CreatedWith(i) == Decode(calls[i].req, i)

\* What a processResponse call makes of the headers `before` when it runs
\* alone with the RequestData its request was decoded to
EncodedAlone(e) ==
    ApplySetHeader(e.before, SetHeaderCalls(CreatedWith(e.rd), e.data))

\* C10: whatever calls for other requests come between, the logger and the
\* default public path of the adapter are those of its construction; every
\* RequestData holds, and its accessors return, what processRequest made it
\* with in isolation; and the headers of a response are what the latest
\* processResponse call on it makes of them in isolation: a later call for
\* another request leaves them alone.
C10_SharedAdapter ==
    /\ log = (IF options.logger.def THEN options.logger.str ELSE <<"console">>)
    /\ defaultPublicPath =
          (IF options.publicPath.def THEN options.publicPath.str ELSE <<"/">>)
    /\ \A i \in 1..Len(calls) :
          /\ calls[i].status = CreatedWith(i).status
          /\ calls[i].requestUrl = CreatedWith(i).requestUrl
          /\ calls[i].basePageUrl = CreatedWith(i).basePageUrl
          /\ calls[i].passedProps = CreatedWith(i).passedProps
    /\ lastRead.rd # 0 =>
          CASE lastRead.accessor = "getCurrentReqUrl" ->
                  lastRead.str = CreatedWith(lastRead.rd).requestUrl
            [] lastRead.accessor = "getCurrentBasePath" ->
                  lastRead.str = CreatedWith(lastRead.rd).basePageUrl
            [] OTHER -> lastRead.obj = CreatedWith(lastRead.rd).passedProps
    /\ encodes > 0 => After = EncodedAlone(lastEncode)
    /\ (encodes > 1 /\ prevEncode.res # lastEncode.res) =>
          headers[prevEncode.res] = EncodedAlone(prevEncode)
    /\ \A k \in 1..Len(headers) :
          \* with two calls or fewer, lastEncode and prevEncode name every
          \* response a call was made on
          (encodes <= 2 /\ k # lastEncode.res /\ k # prevEncode.res) =>
              headers[k] = FreshHeaders

C10_Witness ==
    /\ Cardinality(Returned) = 2
    /\ encodes = 2
    /\ prevEncode.rd # lastEncode.rd
    /\ headers[prevEncode.res] # FreshHeaders
    /\ headers[lastEncode.res] # FreshHeaders
    /\ lastRead.rd = prevEncode.rd
    /\ Len(warnings) > 0

=============================================================================
